---- MODULE Spec2Model ----
(***************************************************************************)
(* A model of neuron_minimal_io/main.py: the transport codec               *)
(* (NeuronIO.nserialize / NeuronIO.ndeserialize), the exchange driver      *)
(* (the generator NeuronIO.io), the device locator                         *)
(* (NeuronChat.find_ports_with_dygma_products) and the client object       *)
(* (NeuronChat.__init__ / NeuronChat.talk).                                *)
(*                                                                         *)
(* A str is a sequence of characters, each character a one-element token;  *)
(* a bytes object is a sequence of integers in 0..255.  The codec maps one *)
(* onto the other through Ord / Chr and fails outside 7-bit ASCII.         *)
(***************************************************************************)
EXTENDS Integers, Sequences, FiniteSets, TLC

VARIABLES
    \* ---- NeuronIO.io used by a direct consumer ----
    gen,         \* the generator object returned by the latest NeuronIO.io call
    calls,       \* calls of NeuronIO.io made so far
    \* ---- the NeuronChat object ----
    comports,    \* what serial.tools.list_ports.comports() enumerates
    nc_state,    \* "unconstructed" | "constructed" | "RuntimeError"
    nc_arg,      \* the port argument given to NeuronChat(...)
    nc_port,     \* self._port
    discovered,  \* TRUE when __init__ ran find_ports_with_dygma_products
    found,       \* the latest result of find_ports_with_dygma_products
    located,     \* TRUE once found holds a result
    talking,     \* TRUE while a talk call is draining its generator
    verbose,     \* the verbose argument of the latest talk call
    talk_result, \* <<>>, or <<kind, value>>: what the latest talk call returned or raised
    \* ---- a codec round trip ----
    codec_cmd,   \* the command under test
    codec_wire,  \* nserialize(codec_cmd) once encoded
    codec_text,  \* ndeserialize(codec_wire) once decoded
    codec_pc     \* "start" | "encoded" | "decoded" | "UnicodeEncodeError"

gen_vars   == <<gen, calls>>
chat_vars  == <<comports, nc_state, nc_arg, nc_port, discovered, found,
                located, talking, verbose, talk_result>>
codec_vars == <<codec_cmd, codec_wire, codec_text, codec_pc>>
vars       == <<gen_vars, chat_vars, codec_vars>>

(***************************************************************************)
(* Bounds of the model.                                                    *)
(***************************************************************************)
MaxReads == 3      \* readline calls per exchange
MaxCalls == 2      \* NeuronIO.io calls of a direct consumer
MaxDevices == 2    \* enumerated serial devices
MaxCmdLen == 3     \* characters of a command in a codec round trip

(***************************************************************************)
(* Characters and bytes.                                                   *)
(***************************************************************************)
NonAscii == "U+00E9"
AsciiChars == {"a", "b", ".", " ", "\r", "\n", "<", ">", ":"}
Chars == AsciiChars \cup {NonAscii}

\* ord(c)
Ord(c) ==
    CASE c = "a" -> 97
      [] c = "b" -> 98
      [] c = "." -> 46
      [] c = " " -> 32
      [] c = "\r" -> 13
      [] c = "\n" -> 10
      [] c = "<" -> 60
      [] c = ">" -> 62
      [] c = ":" -> 58
      [] c = NonAscii -> 233

\* chr(b), for the 7-bit bytes of the model
Chr(b) == CHOOSE c \in AsciiChars : Ord(c) = b

\* str.strip() removes these from both ends (the ASCII ones of the model)
Whitespace == {" ", "\r", "\n"}

RECURSIVE lstrip(_)
lstrip(s) ==
    IF s # <<>> /\ Head(s) \in Whitespace THEN lstrip(Tail(s)) ELSE s

RECURSIVE rstrip(_)
rstrip(s) ==
    IF s # <<>> /\ s[Len(s)] \in Whitespace
    THEN rstrip(SubSeq(s, 1, Len(s) - 1))
    ELSE s

\* str.strip()
strip(s) == rstrip(lstrip(s))

CHARSET == "ascii"
END_OF_CONTENT == <<".">>

\* str.encode(CHARSET): ok, or UnicodeEncodeError
encode(s) ==
    IF \E i \in 1..Len(s) : Ord(s[i]) > 127
    THEN [ok |-> FALSE, val |-> <<>>]
    ELSE [ok |-> TRUE, val |-> [i \in 1..Len(s) |-> Ord(s[i])]]

\* bytes.decode(CHARSET): ok, or UnicodeDecodeError
decode(b) ==
    IF \E i \in 1..Len(b) : b[i] > 127
    THEN [ok |-> FALSE, val |-> <<>>]
    ELSE [ok |-> TRUE, val |-> [i \in 1..Len(b) |-> Chr(b[i])]]

\* decoding without the strip() of line 68
ndeserialize_nostrip(output_line) == decode(output_line)

\* decoding that drops the bytes it cannot decode instead of raising
ndeserialize_ignore(output_line) ==
    LET d == decode(SelectSeq(output_line, LAMBDA x : x <= 127))
    IN  [ok |-> TRUE, val |-> strip(d.val)]

\* NeuronIO.ndeserialize
ndeserialize(output_line) ==
    LET d == decode(output_line)
    IN  IF d.ok THEN [ok |-> TRUE, val |-> strip(d.val)] ELSE d

\* encoding without the strip() of line 72
nserialize_nostrip(cmd) == encode(cmd \o <<"\n">>)

\* NeuronIO.nserialize
nserialize(cmd) == encode(strip(cmd) \o <<"\n">>)

\* a loop test that also stops on an empty line
IsEndOfContent_or_empty(content) == content = END_OF_CONTENT \/ content = <<>>

\* the loop test of line 78: content != END_OF_CONTENT is false
IsEndOfContent(content) == content = END_OF_CONTENT

(***************************************************************************)
(* The device side of the serial line.                                     *)
(***************************************************************************)
LINE_A     == <<97, 13, 10>>       \* b"a\r\n"
LINE_B     == <<32, 98, 10>>       \* b" b\n"
LINE_EMPTY == <<13, 10>>           \* b"\r\n"
LINE_DOT   == <<46, 13, 10>>       \* b".\r\n"
LINE_BAD   == <<255, 10>>          \* b"\xff\n"
DeviceLines == {LINE_A, LINE_B, LINE_EMPTY, LINE_DOT, LINE_BAD}

\* what one serial.readline() call can do: return a line, raise, or not return yet
ReadResults ==
    {[kind |-> "line", data |-> l] : l \in DeviceLines}
    \cup {[kind |-> "SerialException", data |-> <<>>],
          [kind |-> "blocked", data |-> <<>>]}

Ports == {"/dev/ttyACM0", "/dev/ttyS7"}
Commands == {<<"a">>, <<" ", "b", "\r", "\n">>, <<NonAscii>>}

Count(tr, e) == Cardinality({i \in 1..Len(tr) : tr[i] = e})

\* Serial.__exit__ that leaves the port open
SerialExit_leak(is_open) == is_open

\* Serial.__exit__ at the end of the with block: close()
SerialExit(is_open) == "closed"

(***************************************************************************)
(* NeuronIO.io: a generator function.  Calling it runs none of its body;   *)
(* each next() runs the body up to the next yield, return or exception.    *)
(* A generator object is a record:                                         *)
(*   gi_state   "none" | "GEN_CREATED" | "GEN_RUNNING" | "GEN_SUSPENDED"   *)
(*              | "GEN_CLOSED"  (GEN_RUNNING: a next() blocked in readline)*)
(*   serial     the Serial of the with statement:                          *)
(*              "unopened" | "open" | "closed"                             *)
(*   port, command   the arguments of the call                             *)
(*   trace      the calls made by the body, in order                       *)
(*   written    the byte strings serial.write has sent, in order           *)
(*   received   the byte strings returned by serial.readline, in order     *)
(*   yielded    the strings handed to the consumer, in order               *)
(*   exc        <<>> or <<exception type, raising call>>                   *)
(*   last       what the latest next() gave the consumer                   *)
(*   pulls      next() calls made on the object                            *)
(*   finalized  TRUE once the consumer closed or dropped the object        *)
(***************************************************************************)
NoGen ==
    [gi_state |-> "none", serial |-> "unopened", port |-> "", command |-> <<>>,
     trace |-> <<>>, written |-> <<>>, received |-> <<>>, yielded |-> <<>>,
     exc |-> <<>>, last |-> "none", pulls |-> 0, finalized |-> FALSE]

\* A call that opens the port and writes before it returns the sequence.
io_eager(p, c) ==
    [NoGen EXCEPT !.gi_state = "GEN_SUSPENDED", !.serial = "open", !.port = p,
                  !.command = c, !.trace = <<"Serial", "write">>,
                  !.written = <<nserialize(c).val>>]

\* NeuronIO.io(port, command): builds the generator object, runs no statement.
io(p, c) ==
    [NoGen EXCEPT !.gi_state = "GEN_CREATED", !.port = p, !.command = c]

\* An exception leaves the body: the with block, when entered, exits first.
Raise(g, tr, e, entered) ==
    [g EXCEPT !.gi_state = "GEN_CLOSED",
              !.serial = IF entered THEN SerialExit("open") ELSE @,
              !.trace = IF entered THEN tr \o <<"close">> ELSE tr,
              !.exc = e,
              !.last = "raise"]

\* Lines 78-79 from the point where serial.readline() has been called
\* (tr already holds that call) and answers with res.
Deliver(g, tr, res) ==
    IF res.kind = "blocked"
    THEN [g EXCEPT !.gi_state = "GEN_RUNNING", !.serial = "open", !.trace = tr,
                   !.last = "pending"]
    ELSE IF res.kind = "SerialException"
    THEN Raise(g, tr, <<"SerialException", "readline">>, TRUE)
    ELSE LET content == ndeserialize(res.data)
             got == [g EXCEPT !.received = Append(@, res.data)]
         IN  IF ~content.ok
             THEN Raise(got, tr, <<"UnicodeDecodeError", "ndeserialize">>, TRUE)
             ELSE IF IsEndOfContent(content.val)
             THEN [got EXCEPT !.gi_state = "GEN_CLOSED",
                              !.serial = SerialExit("open"),
                              !.trace = tr \o <<"close">>,
                              !.last = "StopIteration"]
             ELSE [got EXCEPT !.gi_state = "GEN_SUSPENDED",
                              !.serial = "open",
                              !.trace = tr \o <<"yield">>,
                              !.yielded = Append(@, content.val),
                              !.last = "yield"]

\* The first next(): lines 76-78 up to the first yield, return or exception.
\* opened: Serial(port) opens the port; wrote: serial.write succeeds.
Start(g, opened, wrote, res) ==
    LET data == nserialize(g.command)
        p == [g EXCEPT !.pulls = @ + 1]
    IN  IF ~opened
        THEN Raise(p, <<"Serial">>, <<"SerialException", "Serial">>, FALSE)
        ELSE IF ~data.ok
        THEN Raise(p, <<"Serial">>, <<"UnicodeEncodeError", "nserialize">>, TRUE)
        ELSE IF ~wrote
        THEN Raise(p, <<"Serial", "write">>, <<"SerialException", "write">>, TRUE)
        ELSE Deliver([p EXCEPT !.written = Append(@, data.val)],
                     <<"Serial", "write", "readline">>, res)

\* A later next() that sends the command again before it reads.
Resume_rewrite(g, res) ==
    Deliver([g EXCEPT !.pulls = @ + 1,
                      !.written = Append(@, nserialize(g.command).val)],
            g.trace \o <<"write", "readline">>, res)

\* A later next(): resumes after the yield of line 79 with the next readline.
Resume(g, res) ==
    Deliver([g EXCEPT !.pulls = @ + 1], g.trace \o <<"readline">>, res)

\* A next() on a finished generator that runs the body again.
Stopped_restart(g) ==
    Start([g EXCEPT !.trace = <<>>], TRUE, TRUE, [kind |-> "line", data |-> LINE_A])

\* next() on a finished generator: StopIteration, the body does not run.
Stopped(g) ==
    [g EXCEPT !.pulls = @ + 1, !.last = "StopIteration"]

\* generator.close(), also run when the object is dropped: nothing to do for
\* a generator that never started; GeneratorExit is raised at the yield of a
\* suspended one and leaves the with block.
close(g) ==
    IF g.gi_state = "GEN_SUSPENDED"
    THEN [g EXCEPT !.gi_state = "GEN_CLOSED", !.finalized = TRUE,
                   !.serial = SerialExit(@), !.trace = @ \o <<"close">>]
    ELSE [g EXCEPT !.gi_state = "GEN_CLOSED", !.finalized = TRUE]

\* A direct caller of NeuronIO.io.  Generator objects share no state, so the
\* model follows one at a time: a new call is made once the object of the
\* earlier call is finished.
Call ==
    /\ gen.gi_state \in {"none", "GEN_CLOSED"}
    /\ calls < MaxCalls
    /\ calls' = calls + 1
    /\ \E p \in Ports, c \in Commands : gen' = io(p, c)
    /\ UNCHANGED <<chat_vars, codec_vars>>

PullCreated ==
    /\ gen.gi_state = "GEN_CREATED"
    /\ \E opened \in BOOLEAN, wrote \in BOOLEAN, res \in ReadResults :
         gen' = Start(gen, opened, wrote, res)
    /\ UNCHANGED <<calls, chat_vars, codec_vars>>

PullSuspended ==
    /\ gen.gi_state = "GEN_SUSPENDED"
    /\ Count(gen.trace, "readline") < MaxReads
    /\ \E res \in ReadResults : gen' = Resume(gen, res)
    /\ UNCHANGED <<calls, chat_vars, codec_vars>>

\* The readline a next() is blocked in returns a line or raises.
Unblock ==
    /\ gen.gi_state = "GEN_RUNNING"
    /\ \E res \in ReadResults :
         res.kind # "blocked" /\ gen' = Deliver(gen, gen.trace, res)
    /\ UNCHANGED <<calls, chat_vars, codec_vars>>

Reiterate ==
    /\ gen.gi_state = "GEN_CLOSED"
    /\ gen.pulls <= MaxReads
    /\ gen' = Stopped(gen)
    /\ UNCHANGED <<calls, chat_vars, codec_vars>>

\* The consumer abandons the sequence.
Close ==
    /\ gen.gi_state \in {"GEN_CREATED", "GEN_SUSPENDED"}
    /\ gen' = close(gen)
    /\ UNCHANGED <<calls, chat_vars, codec_vars>>

(***************************************************************************)
(* The device locator and the NeuronChat object.                           *)
(***************************************************************************)
DYGMA_VENDOR_ID_RAISE == 4617       \* 0x1209
DYGMA_VENDOR_ID_DEFY == 13807       \* 0x35EF
DYGMA_VENDOR_ID_RAISE2 == 13807     \* 0x35EF
RAISE_ANSI_PRODUCT_ID == 8705       \* 0x2201
RAISE_ISO_PRODUCT_ID == 8705        \* 0x2201
DEFY_WIRED_PRODUCT_ID == 16         \* 0x0010
DEFY_WIRELESS_PRODUCT_ID == 18      \* 0x0012
RAISE2_ANSI_PRODUCT_ID == 33        \* 0x0021
RAISE2_ISO_PRODUCT_ID == 35         \* 0x0023

\* The table with the Defy rows built from the Defy product ids.
LIST_PORT_PID_VID_PAIRS_defy ==
    {<<DYGMA_VENDOR_ID_RAISE, RAISE_ANSI_PRODUCT_ID>>,
     <<DYGMA_VENDOR_ID_RAISE, RAISE_ISO_PRODUCT_ID>>,
     <<DYGMA_VENDOR_ID_RAISE2, RAISE2_ANSI_PRODUCT_ID>>,
     <<DYGMA_VENDOR_ID_RAISE2, RAISE2_ISO_PRODUCT_ID>>,
     <<DYGMA_VENDOR_ID_DEFY, DEFY_WIRED_PRODUCT_ID>>,
     <<DYGMA_VENDOR_ID_DEFY, DEFY_WIRELESS_PRODUCT_ID>>}

LIST_PORT_PID_VID_PAIRS ==
    {<<DYGMA_VENDOR_ID_RAISE, RAISE_ANSI_PRODUCT_ID>>,
     <<DYGMA_VENDOR_ID_RAISE, RAISE_ISO_PRODUCT_ID>>,
     <<DYGMA_VENDOR_ID_RAISE2, RAISE2_ANSI_PRODUCT_ID>>,
     <<DYGMA_VENDOR_ID_RAISE2, RAISE2_ISO_PRODUCT_ID>>,
     <<DYGMA_VENDOR_ID_DEFY, RAISE2_ANSI_PRODUCT_ID>>,
     <<DYGMA_VENDOR_ID_DEFY, RAISE2_ISO_PRODUCT_ID>>}

\* NeuronChat.find_ports_with_dygma_products over the enumerated ports
find_ports_with_dygma_products(ports) ==
    SelectSeq(ports,
              LAMBDA port_info :
                  <<port_info.vid, port_info.pid>> \in LIST_PORT_PID_VID_PAIRS)

\* The serial devices an enumeration can report (ListPortInfo: vid, pid, device).
Attached ==
    {[vid |-> 4617,  pid |-> 8705,  device |-> "/dev/ttyACM0"],
     [vid |-> 13807, pid |-> 33,    device |-> "/dev/ttyACM1"],
     [vid |-> 13807, pid |-> 35,    device |-> "/dev/ttyACM2"],
     [vid |-> 13807, pid |-> 8705,  device |-> "/dev/ttyACM3"],
     [vid |-> 13807, pid |-> 16,    device |-> "/dev/ttyACM4"],
     [vid |-> 4617,  pid |-> 33,    device |-> "/dev/ttyACM5"],
     [vid |-> 13807, pid |-> 18,    device |-> "/dev/ttyACM6"],
     [vid |-> 65535, pid |-> 65535, device |-> "/dev/ttyUSB0"]}

\* Enumerations: up to MaxDevices distinct devices, in any order.
Enumerations ==
    UNION {{l \in [1..n -> Attached] : \A i, j \in 1..n : l[i] = l[j] => i = j}
           : n \in 0..MaxDevices}

\* The devices of the enumerations a NeuronChat is constructed against.
ChatDevices == {"/dev/ttyACM0", "/dev/ttyACM1", "/dev/ttyUSB0"}

None == "<None>"
Unset == "<unset>"
PortArgs == {None, "", "/dev/ttyS7"}

\* bool(port) for a str or None
Truthy(p) == p # None /\ p # ""

\* A selection rule that takes the first candidate when there are several.
AutoSelect_first(ports) == Len(ports) >= 1

\* The test of line 88
AutoSelect(ports) == Len(ports) = 1

\* NeuronChat.find_ports_with_dygma_products(), called on its own
FindPorts ==
    /\ found' = find_ports_with_dygma_products(comports)
    /\ located' = TRUE
    /\ UNCHANGED <<comports, nc_state, nc_arg, nc_port, discovered, talking,
                   verbose, talk_result, gen_vars, codec_vars>>

\* NeuronChat(port)
Construct(arg) ==
    /\ nc_state = "unconstructed"
    /\ nc_arg' = arg
    /\ IF ~Truthy(arg)
       THEN LET ports == find_ports_with_dygma_products(comports) IN
            /\ discovered' = TRUE
            /\ found' = ports
            /\ located' = TRUE
            /\ IF AutoSelect(ports)
               THEN nc_port' = ports[1].device /\ nc_state' = "constructed"
               ELSE nc_port' = nc_port /\ nc_state' = "RuntimeError"
       ELSE /\ nc_port' = arg
            /\ nc_state' = "constructed"
            /\ UNCHANGED <<discovered, found, located>>
    /\ UNCHANGED <<comports, talking, verbose, talk_result, gen_vars,
                   codec_vars>>

UI_TO_NEURON == <<"<", "<">>
UI_FROM_NEURON == <<">", ">">>
UI_TEMPLATE(content) == UI_FROM_NEURON \o <<" ">> \o content

\* "\n".join(lines)
RECURSIVE Join(_)
Join(lines) ==
    IF lines = <<>> THEN <<>>
    ELSE IF Len(lines) = 1 THEN lines[1]
    ELSE lines[1] \o <<"\n">> \o Join(Tail(lines))

\* NeuronChat.talk(command, verbose), line 110: the generator is built from
\* self._port; the value of an earlier call is gone.
TalkCall(c, v) ==
    /\ nc_state = "constructed"
    /\ ~talking
    /\ gen' = io(nc_port, c)
    /\ talking' = TRUE
    /\ verbose' = v
    /\ talk_result' = <<>>
    /\ UNCHANGED <<calls, comports, nc_state, nc_arg, nc_port, discovered,
                   found, located, codec_vars>>

\* NeuronChat.talk, lines 112-120: extend / join have pulled the generator to
\* its end; the joined text is returned, or the generator's exception leaves
\* talk.  The generator object is dropped.
TalkReturn ==
    /\ talking
    /\ gen.gi_state = "GEN_CLOSED"
    /\ talking' = FALSE
    /\ talk_result' =
         IF gen.exc # <<>> THEN <<"raise", gen.exc[1]>>
         ELSE IF verbose
         THEN <<"return",
                Join(<<UI_TO_NEURON \o <<" ">> \o gen.command \o <<":", " ">>>>
                     \o [i \in 1..Len(gen.yielded) |->
                           UI_TEMPLATE(gen.yielded[i])])>>
         ELSE <<"return", Join(gen.yielded)>>
    /\ gen' = NoGen
    /\ UNCHANGED <<calls, comports, nc_state, nc_arg, nc_port, discovered,
                   found, located, verbose, codec_vars>>

(***************************************************************************)
(* A codec round trip: nserialize, then ndeserialize of what it produced.  *)
(***************************************************************************)
CodecChars == {"a", " ", "\r", "\n", NonAscii}
CodecCommands == UNION {[1..n -> CodecChars] : n \in 0..MaxCmdLen}

Encode ==
    /\ codec_pc = "start"
    /\ codec_wire' = nserialize(codec_cmd)
    /\ codec_pc' = IF nserialize(codec_cmd).ok THEN "encoded" ELSE "UnicodeEncodeError"
    /\ UNCHANGED <<codec_cmd, codec_text, gen_vars, chat_vars>>

Decode ==
    /\ codec_pc = "encoded"
    /\ codec_text' = ndeserialize(codec_wire.val)
    /\ codec_pc' = "decoded"
    /\ UNCHANGED <<codec_cmd, codec_wire, gen_vars, chat_vars>>

(***************************************************************************)
(* Specifications.                                                         *)
(***************************************************************************)
GenInit ==
    /\ gen = NoGen
    /\ calls = 0

ChatInit0 ==
    /\ nc_state = "unconstructed"
    /\ nc_arg = None
    /\ nc_port = Unset
    /\ discovered = FALSE
    /\ found = <<>>
    /\ located = FALSE
    /\ talking = FALSE
    /\ verbose = FALSE
    /\ talk_result = <<>>

CodecInit0 ==
    /\ codec_wire = [ok |-> FALSE, val |-> <<>>]
    /\ codec_text = [ok |-> FALSE, val |-> <<>>]
    /\ codec_pc = "start"

\* The exchange driver used directly.
Init ==
    /\ GenInit
    /\ ChatInit0 /\ comports = <<>>
    /\ CodecInit0 /\ codec_cmd = <<>>

Next ==
    \/ Call
    \/ PullCreated
    \/ PullSuspended
    \/ Unblock
    \/ Reiterate
    \/ Close

Spec == Init /\ [][Next]_vars

\* The client object: construction, then talk calls.
ChatEnumerations ==
    {l \in Enumerations : \A i \in 1..Len(l) : l[i].device \in ChatDevices}

ChatInit ==
    /\ GenInit
    /\ ChatInit0 /\ comports \in ChatEnumerations
    /\ CodecInit0 /\ codec_cmd = <<>>

ChatNext ==
    \/ \E arg \in PortArgs : Construct(arg)
    \/ \E c \in {<<"a">>}, v \in BOOLEAN : TalkCall(c, v)
    \/ PullCreated
    \/ PullSuspended
    \/ Unblock
    \/ TalkReturn

ChatSpec == ChatInit /\ [][ChatNext]_vars

\* The device locator alone.
LocatorInit ==
    /\ GenInit
    /\ ChatInit0 /\ comports \in Enumerations
    /\ CodecInit0 /\ codec_cmd = <<>>

LocatorNext == FindPorts

LocatorSpec == LocatorInit /\ [][LocatorNext]_vars

\* The codec alone.
CodecInit ==
    /\ GenInit
    /\ ChatInit0 /\ comports = <<>>
    /\ CodecInit0 /\ codec_cmd \in CodecCommands

CodecNext ==
    \/ Encode
    \/ Decode

CodecSpec == CodecInit /\ [][CodecNext]_vars

(***************************************************************************)
(* Properties.                                                             *)
(***************************************************************************)

\* The text a device line carries: its characters without the line ending
\* and the surrounding blanks.  LINE_BAD carries none.
DeviceText(l) ==
    CASE l = LINE_A -> <<"a">>
      [] l = LINE_B -> <<"b">>
      [] l = LINE_EMPTY -> <<>>
      [] l = LINE_DOT -> <<".">>
      [] OTHER -> <<"undecodable">>

Texts(lines) == [i \in 1..Len(lines) |-> DeviceText(lines[i])]

Front(q) == SubSeq(q, 1, Len(q) - 1)

Reads(g) == Count(g.trace, "readline")

\* C1: when the device answers N lines, none of them the sentinel, and then
\* the sentinel line, a fully consumed exchange has yielded exactly the N
\* decoded lines in the order sent and has ended; nothing is read after the
\* sentinel, the sentinel is never yielded, and for N = 0 nothing is yielded.
C1_YieldsLinesBeforeSentinel ==
    LET r == gen.received
        n == Len(r)
    IN  gen.exc = <<>> =>
          /\ \A i \in 1..(n - 1) : DeviceText(r[i]) # <<".">>
          /\ \A i \in 1..Len(gen.yielded) : gen.yielded[i] # <<".">>
          /\ IF n > 0 /\ DeviceText(r[n]) = <<".">>
             THEN /\ gen.gi_state = "GEN_CLOSED"
                  /\ ~gen.finalized
                  /\ gen.yielded = Texts(Front(r))
             ELSE gen.yielded = Texts(r)

C1_Witness ==
    /\ gen.exc = <<>>
    /\ gen.received = <<LINE_A, LINE_B, LINE_DOT>>
    /\ gen.yielded = <<<<"a">>, <<"b">>>>
    /\ gen.gi_state = "GEN_CLOSED"

\* C2: a finished exchange - ended by the sentinel, by an error of the open,
\* the encoding, the write, a read or a decode, or by the consumer closing
\* the sequence - never leaves its serial connection open, and a connection
\* that was opened has been closed exactly once.
C2_ClosedOnEveryExit ==
    gen.gi_state = "GEN_CLOSED" =>
      /\ gen.serial # "open"
      /\ gen.written # <<>> => Count(gen.trace, "close") = 1
      /\ Count(gen.trace, "close") <= 1
      /\ (gen.serial = "closed") = (Count(gen.trace, "close") = 1)

C2_Witness ==
    /\ gen.gi_state = "GEN_CLOSED"
    /\ gen.finalized
    /\ Len(gen.yielded) = 2
    /\ gen.serial = "closed"

\* C3: in one exchange the encoded command is written at most once, and
\* exactly once before anything is read or yielded; no write follows a read;
\* every yield directly follows the read of its own line, so the k-th line
\* yielded is the k-th line read.
C3_WriteOnceThenOrderedReads ==
    LET tr == gen.trace IN
    /\ Count(tr, "write") <= 1
    /\ Len(gen.written) =
         IF gen.exc = <<"SerialException", "write">> THEN 0 ELSE Count(tr, "write")
    /\ \A i \in 1..Len(gen.written) : gen.written[i] = nserialize(gen.command).val
    /\ \A i \in 1..Len(tr) :
         /\ tr[i] \in {"readline", "yield"} => \E j \in 1..(i - 1) : tr[j] = "write"
         /\ tr[i] = "write" => \A j \in 1..(i - 1) : tr[j] # "readline"
         /\ tr[i] = "yield" => i > 1 /\ tr[i - 1] = "readline"
    /\ Count(tr, "yield") = Len(gen.yielded)
    /\ Len(gen.yielded) <= Len(gen.received)
    /\ \A k \in 1..Len(gen.yielded) : gen.yielded[k] = DeviceText(gen.received[k])

C3_Witness ==
    /\ gen.trace = <<"Serial", "write", "readline", "yield", "readline", "yield">>
    /\ gen.yielded = <<<<"b">>, <<"a">>>>

\* C4 as stated: once NeuronIO.io has been called and has returned its
\* sequence, the serial connection has been opened (or the open has failed).
C4_OpenedAtCall ==
    gen.gi_state # "none" => gen.trace # <<>>

\* C4, amended: the call of NeuronIO.io opens nothing; the port is opened by
\* the first next() on the returned sequence, and when the port cannot be
\* opened the error surfaces at that first next(), with no write and no read.
C4_OpenedAtFirstPull ==
    /\ gen.gi_state = "GEN_CREATED" =>
         gen.serial = "unopened" /\ gen.trace = <<>> /\ gen.pulls = 0 /\ gen.exc = <<>>
    /\ gen.trace # <<>> => gen.pulls >= 1 /\ gen.trace[1] = "Serial"
    /\ gen.exc = <<"SerialException", "Serial">> =>
         /\ gen.gi_state = "GEN_CLOSED"
         /\ gen.serial = "unopened"
         /\ gen.trace = <<"Serial">>
         /\ gen.written = <<>>
         /\ gen.received = <<>>
         /\ gen.last = "raise" => gen.pulls = 1

C4_Witness ==
    /\ gen.exc = <<"SerialException", "Serial">>
    /\ gen.last = "raise"
    /\ gen.pulls = 1

AllowedAsStated(port_info) ==
    <<port_info.vid, port_info.pid>> \in
        {<<4617, 8705>>, <<13807, 8705>>, <<13807, 33>>, <<13807, 35>>}

AllowedByTable(port_info) ==
    <<port_info.vid, port_info.pid>> \in
        {<<4617, 8705>>, <<13807, 33>>, <<13807, 35>>}

\* C5 as stated: the locator returns, in enumeration order, exactly the
\* devices whose pair is (0x1209,0x2201), (0x35EF,0x2201), (0x35EF,0x0021)
\* or (0x35EF,0x0023).
C5_FourPairAllowList ==
    located => found = SelectSeq(comports, AllowedAsStated)

\* C5, amended: the locator returns, in enumeration order, exactly the
\* devices whose pair is (0x1209,0x2201), (0x35EF,0x0021) or (0x35EF,0x0023);
\* a device (0x35EF,0x2201) is not returned; an empty enumeration gives an
\* empty result.
C5_ThreePairAllowList ==
    located =>
      /\ found = SelectSeq(comports, AllowedByTable)
      /\ comports = <<>> => found = <<>>

C5_Witness ==
    /\ located
    /\ Len(comports) = 2
    /\ comports[1].vid = 13807 /\ comports[1].pid = 8705
    /\ comports[2].vid = 13807 /\ comports[2].pid = 35
    /\ found = <<comports[2]>>

\* What construction must have done when discovery was to be performed.
BoundByDiscovery ==
    /\ discovered
    /\ located
    /\ IF Len(found) = 1
       THEN nc_state = "constructed" /\ nc_port = found[1].device
       ELSE nc_state = "RuntimeError" /\ nc_port = Unset

\* What construction must have done when the given port was to be kept.
BoundAsGiven ==
    /\ nc_state = "constructed"
    /\ nc_port = nc_arg
    /\ ~discovered

\* C6 as stated: discovery decides the port exactly when no port (None) was
\* given; any port that was given is bound unchanged without discovery.
C6_AnyGivenPortIsBound ==
    nc_state # "unconstructed" =>
      IF nc_arg = None THEN BoundByDiscovery ELSE BoundAsGiven

\* C6, amended: with no port or an empty port string given, the client binds
\* the device path of the candidate if and only if discovery returns exactly
\* one candidate, and otherwise construction fails and no port is bound; a
\* non-empty port that was given is bound unchanged without discovery; and a
\* bound port never changes over any sequence of talk calls.
C6_PortBinding ==
    /\ [](nc_state # "unconstructed" =>
            IF nc_arg \in {None, ""} THEN BoundByDiscovery ELSE BoundAsGiven)
    /\ [][nc_state # "unconstructed" =>
            nc_port' = nc_port /\ nc_state' = nc_state]_vars

C6_Witness ==
    /\ nc_state = "constructed"
    /\ nc_arg = None
    /\ nc_port = "/dev/ttyACM1"
    /\ Len(comports) = 2
    /\ talk_result # <<>>

\* The exchange is under way and the device has sent no sentinel line.
NoSentinelSoFar ==
    /\ gen.written # <<>>
    /\ ~gen.finalized
    /\ \A i \in 1..Len(gen.received) : gen.received[i] # LINE_DOT

\* C7 as stated: while the device has sent no sentinel line and the consumer
\* has not abandoned the sequence, the exchange has not ended and its
\* connection is open.
C7_OnlySentinelEnds ==
    NoSentinelSoFar =>
      gen.gi_state \in {"GEN_RUNNING", "GEN_SUSPENDED"} /\ gen.serial = "open"

\* C7, amended: while the device has sent no sentinel line, no read or decode
\* has raised an error and the consumer has not abandoned the sequence, the
\* exchange has not ended - it is suspended at a yield or blocked in a read -
\* and its connection is open, however many lines have been read.
C7_OnlySentinelOrErrorEnds ==
    NoSentinelSoFar /\ gen.exc = <<>> =>
      gen.gi_state \in {"GEN_RUNNING", "GEN_SUSPENDED"} /\ gen.serial = "open"

C7_Witness ==
    /\ NoSentinelSoFar
    /\ gen.exc = <<>>
    /\ gen.received = <<LINE_EMPTY, LINE_A, LINE_EMPTY>>
    /\ gen.gi_state = "GEN_SUSPENDED"

IsAsciiBytes(b) == \A i \in 1..Len(b) : b[i] < 128

\* C8: when the k-th read fails or returns bytes that are not ASCII, the
\* exception reaches the consumer in the k-th next(); k-1 lines have been
\* yielded before, one by one; the failing line is not yielded; the failing
\* read is the last call made on the connection before it is closed; and the
\* generator is finished.
C8_ReadErrorSurfacesAtItsPull ==
    LET k == Reads(gen) IN
    /\ \A i \in 1..Len(gen.received) :
         ~IsAsciiBytes(gen.received[i]) =>
           /\ i = Len(gen.received)
           /\ i = k
           /\ gen.exc = <<"UnicodeDecodeError", "ndeserialize">>
    /\ gen.exc \in {<<"SerialException", "readline">>,
                    <<"UnicodeDecodeError", "ndeserialize">>} =>
         /\ gen.gi_state = "GEN_CLOSED"
         /\ gen.serial = "closed"
         /\ Len(gen.yielded) = k - 1
         /\ Count(gen.trace, "yield") = k - 1
         /\ gen.yielded = Texts(SubSeq(gen.received, 1, k - 1))
         /\ SubSeq(gen.trace, Len(gen.trace) - 1, Len(gen.trace)) = <<"readline", "close">>
         /\ gen.last = "raise" => gen.pulls = k

C8_Witness ==
    /\ gen.exc = <<"UnicodeDecodeError", "ndeserialize">>
    /\ gen.last = "raise"
    /\ gen.received = <<LINE_A, LINE_B, LINE_BAD>>
    /\ gen.yielded = <<<<"a">>, <<"b">>>>

\* C9: a finished sequence stays finished: a further next() gives
\* StopIteration and makes no open, write, read or yield; what has been
\* yielded grows only inside the exchange of one call, and every exchange
\* that yields has made its own open and its own single write first.
C9_NotRestartable ==
    /\ [][gen.gi_state = "GEN_CLOSED" /\ calls' = calls =>
            /\ gen'.gi_state = "GEN_CLOSED"
            /\ gen'.trace = gen.trace
            /\ gen'.serial = gen.serial
            /\ gen'.written = gen.written
            /\ gen'.received = gen.received
            /\ gen'.yielded = gen.yielded
            /\ gen' # gen => gen'.last = "StopIteration"]_vars
    /\ [][calls' # calls =>
            /\ gen'.gi_state = "GEN_CREATED"
            /\ gen'.trace = <<>>
            /\ gen'.yielded = <<>>]_vars
    /\ [](gen.yielded # <<>> =>
            /\ SubSeq(gen.trace, 1, 3) = <<"Serial", "write", "readline">>
            /\ Count(gen.trace, "Serial") = 1
            /\ Count(gen.trace, "write") = 1)

C9_Witness ==
    /\ calls = 2
    /\ gen.gi_state = "GEN_CLOSED"
    /\ gen.exc = <<>>
    /\ ~gen.finalized
    /\ gen.yielded # <<>>
    /\ gen.last = "StopIteration"
    /\ gen.pulls > Reads(gen)

IsAsciiStr(c) == \A i \in 1..Len(c) : c[i] # NonAscii

\* A newline with text on both sides of it.
EmbeddedNewline(c) ==
    \E i, k, j \in 1..Len(c) :
        i < k /\ k < j /\ c[k] = "\n" /\ c[i] \notin Whitespace /\ c[j] \notin Whitespace

\* r is c without its leading and trailing whitespace.
IsStripped(r, c) ==
    \E i, j \in 0..Len(c) :
        /\ i + Len(r) + j = Len(c)
        /\ r = SubSeq(c, i + 1, i + Len(r))
        /\ \A k \in 1..i : c[k] \in Whitespace
        /\ \A k \in (Len(c) - j + 1)..Len(c) : c[k] \in Whitespace
        /\ r # <<>> => r[1] \notin Whitespace /\ r[Len(r)] \notin Whitespace

\* C10: for an ASCII command without embedded newlines the encoding succeeds
\* and ends in exactly one newline byte, and decoding the encoded bytes gives
\* the command without its leading and trailing whitespace.
C10_CodecRoundTrip ==
    IsAsciiStr(codec_cmd) /\ ~EmbeddedNewline(codec_cmd) =>
      /\ codec_pc # "UnicodeEncodeError"
      /\ codec_pc \in {"encoded", "decoded"} =>
           LET w == codec_wire.val IN
           /\ codec_wire.ok
           /\ w # <<>>
           /\ w[Len(w)] = 10
           /\ Len(w) > 1 => w[Len(w) - 1] # 10
      /\ codec_pc = "decoded" =>
           /\ codec_text.ok
           /\ IsStripped(codec_text.val, codec_cmd)

C10_Witness ==
    /\ codec_pc = "decoded"
    /\ codec_cmd = <<" ", "a", "\n">>
    /\ codec_text.val = <<"a">>

====
